---- MODULE Spec2Model ----
(***************************************************************************)
(* CORD-19 metadata analysis: the batch script analysis.py and the         *)
(* Streamlit dashboard app.py.                                             *)
(*                                                                         *)
(* Text (titles, raw publish_time strings) is a sequence of one-character  *)
(* strings, so that regular expressions, len() and split() are computed    *)
(* character by character.  Journals and abstracts are plain strings.      *)
(* A missing CSV cell (NaN) is NaN for text cells and NA for string cells. *)
(***************************************************************************)
EXTENDS Integers, Sequences, FiniteSets, TLC

\* ------------------------------------------------------------ characters

UpperLetters == <<"A","B","C","D","E","F","G","H","I","J","K","L","M",
                  "N","O","P","Q","R","S","T","U","V","W","X","Y","Z">>
LowerLetters == <<"a","b","c","d","e","f","g","h","i","j","k","l","m",
                  "n","o","p","q","r","s","t","u","v","w","x","y","z">>
DigitChars == <<"0","1","2","3","4","5","6","7","8","9">>

Range(s) == { s[i] : i \in DOMAIN s }

UpperSet == Range(UpperLetters)
LowerSet == Range(LowerLetters)
DigitSet == Range(DigitChars)

IsUpper(c) == c \in UpperSet
IsLowerAZ(c) == c \in LowerSet
IsDigit(c) == c \in DigitSet
\* \w of Python's re on ASCII text: letters, digits and the underscore
IsWordChar(c) == IsUpper(c) \/ IsLowerAZ(c) \/ IsDigit(c) \/ c = "_"
\* \s, and the separators of str.split()
IsSpace(c) == c \in {" ", "\t", "\n"}

\* the lower-case letter of each upper-case letter
ToLower ==
  [c \in UpperSet |-> LowerLetters[CHOOSE i \in DOMAIN UpperLetters : UpperLetters[i] = c]]

\* str.lower() on one character
LowerChar(c) == IF IsUpper(c) THEN ToLower[c] ELSE c

\* str.lower()
Lower(text) == [i \in DOMAIN text |-> LowerChar(text[i])]

DigitValues == [c \in DigitSet |-> (CHOOSE i \in DOMAIN DigitChars : DigitChars[i] = c) - 1]
DigitVal(c) == DigitValues[c]

\* the characters of a word joined into one string
RECURSIVE Str(_)
Str(cs) == IF cs = <<>> THEN "" ELSE cs[1] \o Str(Tail(cs))

\* ' '.join(texts)
RECURSIVE JoinSpace(_)
JoinSpace(texts) ==
  IF texts = <<>> THEN <<>>
  ELSE IF Len(texts) = 1 THEN texts[1]
  ELSE texts[1] \o <<" ">> \o JoinSpace(Tail(texts))

\* the members of a set of positions, in increasing order: the k-th is the
\* one with k members up to it
Ascending(S) ==
  [k \in 1..Cardinality(S) |-> CHOOSE x \in S : Cardinality({ y \in S : y <= x }) = k]

\* The maximal runs of characters between the separators at positions seps,
\* in order: each starts behind a separator (or the start) and ends before one
\* (or the end), and the k-th start belongs with the k-th end.
Runs(text, seps) ==
  LET starts == Ascending({ i \in DOMAIN text \ seps : i = 1 \/ (i - 1) \in seps })
      ends == Ascending({ i \in DOMAIN text \ seps : i = Len(text) \/ (i + 1) \in seps })
  IN  [k \in DOMAIN starts |-> SubSeq(text, starts[k], ends[k])]

\* str.split(): the whitespace-separated words
Split(text) == Runs(text, { i \in DOMAIN text : IsSpace(text[i]) })

\* the maximal runs of \w characters, in order: the stretches between two \b
WordRuns(text) == Runs(text, { i \in DOMAIN text : ~IsWordChar(text[i]) })

\* re.sub(r'[^\w\s]', '', text)
IsWordOrSpace(c) == IsWordChar(c) \/ IsSpace(c)
StripSpecial(text) == SelectSeq(text, IsWordOrSpace)

\* ----------------------------------------------------------------- dates

\* a missing text cell and a missing string cell, as pandas.read_csv yields them
NaN == <<"NaN">>
NA == "NaN"

\* a raw publish_time cell: missing, a string, or a number (a column holding
\* only numbers is read as numbers)
NoCell == [kind |-> "nan", s |-> <<>>, n |-> 0]
StrCell(s) == [kind |-> "str", s |-> s, n |-> 0]
NumCell(n) == [kind |-> "num", s |-> <<>>, n |-> n]

\* what a conversion yields: a timestamp, pd.NaT, or a raised exception
NaT == [kind |-> "NaT", y |-> 0, m |-> 0, d |-> 0]
Raised == [kind |-> "raise", y |-> 0, m |-> 0, d |-> 0]
Date(y, m, d) == [kind |-> "date", y |-> y, m |-> m, d |-> d]

\* a publication_year cell: Series.dt.year of a timestamp, NaN of NaT
NoYear == [defined |-> FALSE, val |-> 0]
Year(y) == [defined |-> TRUE, val |-> y]

AllDigits(s) == \A i \in DOMAIN s : IsDigit(s[i])

RECURSIVE Number(_)
Number(s) == IF s = <<>> THEN 0 ELSE 10 * Number(SubSeq(s, 1, Len(s) - 1)) + DigitVal(s[Len(s)])

IsLeap(y) == (y % 4 = 0 /\ y % 100 # 0) \/ y % 400 = 0

DaysIn(y, m) ==
  IF m = 2 THEN (IF IsLeap(y) THEN 29 ELSE 28)
  ELSE IF m \in {4, 6, 9, 11} THEN 30 ELSE 31

\* The date a string spells, for the ISO 8601 forms YYYY, YYYY-MM and
\* YYYY-MM-DD; Raised for a string that spells no date.
ParseDateString(s) ==
  LET y == Number(SubSeq(s, 1, 4))
      m == Number(SubSeq(s, 6, 7))
      d == Number(SubSeq(s, 9, 10))
  IN  IF Len(s) = 4 /\ AllDigits(s) THEN Date(y, 1, 1)
      ELSE IF /\ Len(s) = 7 /\ s[5] = "-"
              /\ AllDigits(SubSeq(s, 1, 4)) /\ AllDigits(SubSeq(s, 6, 7))
              /\ m \in 1..12
           THEN Date(y, m, 1)
      ELSE IF /\ Len(s) = 10 /\ s[5] = "-" /\ s[8] = "-"
              /\ AllDigits(SubSeq(s, 1, 4)) /\ AllDigits(SubSeq(s, 6, 7))
              /\ AllDigits(SubSeq(s, 9, 10))
              /\ m \in 1..12 /\ d \in 1..DaysIn(y, m)
           THEN Date(y, m, d)
      ELSE Raised

\* pandas.Timestamp at nanosecond resolution spans 1677-09-21 .. 2262-04-11
InNanosecondRange(t) ==
  /\ \/ t.y > 1677
     \/ t.y = 1677 /\ (t.m > 9 \/ (t.m = 9 /\ t.d >= 21))
  /\ \/ t.y < 2262
     \/ t.y = 2262 /\ (t.m < 4 \/ (t.m = 4 /\ t.d <= 11))

\* Whether a parsed date is a pandas.Timestamp.  Year 0 is none (a Timestamp is
\* a datetime, whose years start at 1).  A pandas that keeps every timestamp
\* at nanosecond resolution (nsOnly) also refuses the dates outside that
\* range; a pandas that infers the resolution from the string keeps them.
Representable(t, nsOnly) == t.y >= 1 /\ (nsOnly => InNanosecondRange(t))

\* pd.to_datetime(string): errors='raise' (the default) raises on a string that
\* is no timestamp, errors='coerce' yields NaT
ToDatetimeStr(s, coerce, nsOnly) ==
  LET t == ParseDateString(s)
  IN  IF t.kind = "date" /\ Representable(t, nsOnly) THEN t
      ELSE IF coerce THEN NaT ELSE Raised

\* pd.to_datetime(number, errors='coerce'): nanoseconds since 1970-01-01, so a
\* number within the first day's 86400 seconds is a timestamp of that day
ToDatetimeNum(n) ==
  IF n >= 0 /\ n \div 1000000000 < 86400 THEN Date(1970, 1, 1) ELSE NaT

Contains(s, c) == \E i \in DOMAIN s : s[i] = c

\* convert_publish_time with the year's suffix written '01-01', its dash lost
ConvertPublishTimeTry_LostDash(cell, nsOnly) ==
  IF cell.kind = "nan" THEN NaT
  ELSE IF cell.kind = "str"
       THEN IF Len(cell.s) = 7 /\ Contains(cell.s, "-")
            THEN ToDatetimeStr(cell.s \o <<"-","0","1">>, FALSE, nsOnly)
            ELSE IF Len(cell.s) = 4
            THEN ToDatetimeStr(cell.s \o <<"0","1","-","0","1">>, FALSE, nsOnly)
            ELSE ToDatetimeStr(cell.s, TRUE, nsOnly)
       ELSE ToDatetimeNum(cell.n)

\* analysis.py convert_publish_time, the body of its try block
ConvertPublishTimeTry(cell, nsOnly) ==
  IF cell.kind = "nan" THEN NaT
  ELSE IF cell.kind = "str"
       THEN IF Len(cell.s) = 7 /\ Contains(cell.s, "-")
            THEN ToDatetimeStr(cell.s \o <<"-","0","1">>, FALSE, nsOnly)
            ELSE IF Len(cell.s) = 4
            THEN ToDatetimeStr(cell.s \o <<"-","0","1","-","0","1">>, FALSE, nsOnly)
            ELSE ToDatetimeStr(cell.s, TRUE, nsOnly)
       ELSE ToDatetimeNum(cell.n)

\* a try block without its except: the exception leaves the converter
ExceptNaT_Propagate(r) == r

\* a try block whose bare except returns pd.NaT
ExceptNaT(r) == IF r.kind = "raise" THEN NaT ELSE r

\* analysis.py convert_publish_time
convert_publish_time(cell, nsOnly) == ExceptNaT(ConvertPublishTimeTry(cell, nsOnly))

\* app.py convert_date, the body of its try block
ConvertDateTry(cell, nsOnly) ==
  IF cell.kind = "nan" THEN NaT
  ELSE IF cell.kind = "str"
       THEN IF Len(cell.s) = 4
            THEN ToDatetimeStr(cell.s \o <<"-","0","1","-","0","1">>, FALSE, nsOnly)
            ELSE ToDatetimeStr(cell.s, TRUE, nsOnly)
       ELSE ToDatetimeNum(cell.n)

\* app.py convert_date
convert_date(cell, nsOnly) == ExceptNaT(ConvertDateTry(cell, nsOnly))

\* Series.dt.year
DtYear(t) == IF t.kind = "date" THEN Year(t.y) ELSE NoYear

\* publication_year >= k, False for NaN
YearGE(yr, k) == yr.defined /\ yr.val >= k
YearLE(yr, k) == yr.defined /\ yr.val <= k

\* ------------------------------------------------------------- the frame

UnknownTitle == <<"U","n","k","n","o","w","n"," ","T","i","t","l","e">>
UnknownJournal == "Unknown Journal"

\* the year filters of the two programs
ReasonableYear == 1900
RecentYear == 2010

\* one row of metadata.csv
RawRow(t, a, j, p) == [title |-> t, abstract |-> a, journal |-> j, publish_time |-> p]

\* the journal column left as read, its fillna forgotten
FillJournal_Forgotten(j) == j

\* fillna('') / fillna('Unknown Title') / fillna('Unknown Journal')
FillAbstract(a) == IF a = NA THEN "" ELSE a
FillTitle(t) == IF t = NaN THEN UnknownTitle ELSE t
FillJournal(j) == IF j = NA THEN UnknownJournal ELSE j

\* a row after the fills, the date conversion and the year extraction
CleanRow(r, t) ==
  [title |-> FillTitle(r.title), abstract |-> FillAbstract(r.abstract),
   journal |-> FillJournal(r.journal), publish_time |-> t,
   publication_year |-> DtYear(t)]

\* the whole frame after analysis.py's fills and .apply(convert_publish_time)
BatchPrepared(rows, nsOnly) ==
  [i \in DOMAIN rows |-> CleanRow(rows[i], convert_publish_time(rows[i].publish_time, nsOnly))]

\* the whole frame after app.py's fills and .apply(convert_date)
DashPrepared(rows, nsOnly) ==
  [i \in DOMAIN rows |-> CleanRow(rows[i], convert_date(rows[i].publish_time, nsOnly))]

\* a year filter that lets the rows without a year through
HasReasonableYear_OrNone(r) ==
  ~r.publication_year.defined \/ r.publication_year.val >= ReasonableYear
IsRecent_OrNone(r) ==
  ~r.publication_year.defined \/ r.publication_year.val >= RecentYear

\* df_clean[df_clean['title'] != 'Unknown Title']
HasTitle(r) == r.title # UnknownTitle
\* df_clean[df_clean['publication_year'] >= 1900]
HasReasonableYear(r) == YearGE(r.publication_year, ReasonableYear)
\* df[df['publication_year'] >= 2010]
IsRecent(r) == YearGE(r.publication_year, RecentYear)

\* analysis.py, part 2: df_clean as the analysis uses it
BatchClean(rows, nsOnly) ==
  SelectSeq(SelectSeq(BatchPrepared(rows, nsOnly), HasTitle),
            HasReasonableYear)

\* app.py load_data
load_data(rows, nsOnly) == SelectSeq(DashPrepared(rows, nsOnly), IsRecent)

Column(frame, f) == [i \in DOMAIN frame |-> frame[i][f]]

\* ------------------------------------------------------------ aggregates

Min(a, b) == IF a <= b THEN a ELSE b

\* the values of a sequence, each once, in order of first occurrence
RECURSIVE Distinct(_)
Distinct(vs) ==
  IF vs = <<>> THEN <<>>
  ELSE LET front == Distinct(SubSeq(vs, 1, Len(vs) - 1))
           v == vs[Len(vs)]
       IN  IF v \in Range(front) THEN front ELSE Append(front, v)

Count(vs, v) == Cardinality({ i \in DOMAIN vs : vs[i] = v })

\* an entry placed behind every entry that counts at least as much
RECURSIVE InsertDesc(_, _)
InsertDesc(sorted, e) ==
  IF sorted = <<>> THEN <<e>>
  ELSE IF sorted[1].n >= e.n THEN <<sorted[1]>> \o InsertDesc(Tail(sorted), e)
  ELSE <<e>> \o sorted

RECURSIVE SortDesc(_)
SortDesc(es) ==
  IF es = <<>> THEN <<>>
  ELSE InsertDesc(SortDesc(SubSeq(es, 1, Len(es) - 1)), es[Len(es)])

\* Series.value_counts() and Counter.most_common(): (key, count) by descending
\* count, equal counts in order of first occurrence
ValueCounts(vs) ==
  LET ks == Distinct(vs)
  IN  SortDesc([i \in DOMAIN ks |-> [key |-> ks[i], n |-> Count(vs, ks[i])]])

\* .head(k)
HeadN(es, k) == SubSeq(es, 1, Min(k, Len(es)))

\* an entry placed behind every entry whose key is smaller
RECURSIVE InsertByKey(_, _)
InsertByKey(sorted, e) ==
  IF sorted = <<>> THEN <<e>>
  ELSE IF sorted[1].key <= e.key THEN <<sorted[1]>> \o InsertByKey(Tail(sorted), e)
  ELSE <<e>> \o sorted

RECURSIVE SortIndex(_)
SortIndex(es) ==
  IF es = <<>> THEN <<>>
  ELSE InsertByKey(SortIndex(Tail(es)), es[1])

IsDefinedYear(yr) == yr.defined
YearVal(yrs) == [i \in DOMAIN yrs |-> yrs[i].val]

\* frame['publication_year'].value_counts().sort_index(): NaN is not counted
YearlyCounts(frame) ==
  SortIndex(ValueCounts(YearVal(SelectSeq(Column(frame, "publication_year"), IsDefinedYear))))

BatchHead == 15
NotUnknownJournal(e) == e.key # UnknownJournal

\* analysis.py top_journals: the 15 most frequent, then without 'Unknown Journal'
BatchTopJournals(frame) ==
  SelectSeq(HeadN(ValueCounts(Column(frame, "journal")), BatchHead), NotUnknownJournal)

\* app.py top_journals
DashTopJournals(frame, n) == HeadN(ValueCounts(Column(frame, "journal")), n)

\* ----------------------------------------------------------- title words

\* analysis.py stop_words
BatchStopWords ==
  {"the", "a", "an", "and", "or", "but", "in", "on", "at", "to", "for", "of",
   "with", "by", "is", "are", "was", "were", "be", "been", "being", "have",
   "has", "had", "do", "does", "did", "will", "would", "could", "should",
   "may", "might", "must", "can", "from", "as", "that", "this", "these",
   "those", "which", "what", "when", "where", "who", "whom", "how", "why",
   "via", "using", "based", "study", "review", "analysis", "covid", "19",
   "sars", "cov", "2", "coronavirus", "pandemic"}

\* app.py stop_words
DashStopWords ==
  {"the", "and", "for", "with", "using", "based", "study", "review",
   "analysis", "covid", "19", "sars", "cov", "2"}

\* len(word) > 2 in analysis.py, {3,} in app.py
ShortWord == 2
MinLetters == 3

\* analysis.py clean_text
clean_text(text) == Lower(StripSpecial(text))

Strs(ws) == [i \in DOMAIN ws |-> Str(ws[i])]

BatchKeepWord(w) == w \notin BatchStopWords /\ Len(w) > ShortWord

\* analysis.py filtered_words
BatchFilteredWords(frame) ==
  SelectSeq(Strs(Split(clean_text(JoinSpace(Column(frame, "title"))))), BatchKeepWord)

AllLowerAZ(w) == \A i \in DOMAIN w : IsLowerAZ(w[i])
IsDashWord(w) == Len(w) >= MinLetters /\ AllLowerAZ(w)

\* re.findall(r'\b[a-z]{3,}\b', text): the stretches between two word
\* boundaries that are three or more letters a-z and nothing else
FindWords(text) == SelectSeq(WordRuns(text), IsDashWord)

DashKeepWord(w) == w \notin DashStopWords

\* app.py filtered_words
DashFilteredWords(frame) ==
  SelectSeq(Strs(FindWords(Lower(JoinSpace(Column(frame, "title"))))), DashKeepWord)

BatchTopWords == 20
DashTopWords == 15

\* Counter(filtered_words).most_common(k)
MostCommon(ws, k) == HeadN(ValueCounts(ws), k)

\* ---------------------------------------------------------------- inputs

MaxRows == 2
MaxInteractions == 2

TitleAStudy == <<"A"," ","S","t","u","d","y">>
TitleCovid ==
  <<"C","O","V","I","D","-","1","9"," ","A","n","a","l","y","s","i","s"," ",
    "o","f"," ","L","u","n","g"," ","D","i","s","e","a","s","e">>

TitleLung == <<"L","u","n","g">>

Cell2020May == StrCell(<<"2","0","2","0","-","0","5">>)
Cell2018 == StrCell(<<"2","0","1","8">>)
Cell1950 == StrCell(<<"1","9","5","0">>)
Cell1850 == StrCell(<<"1","8","5","0">>)
CellText == StrCell(<<"a","b","c","d">>)

Titles == {NaN, TitleCovid}
Journals == {NA, "Nature"}
PublishTimes == {NoCell, CellText, Cell1850, Cell1950, Cell2020May}
SomeAbstract == "Some abstract text."

\* every title, journal and publish_time without an abstract, and the rows of
\* 2020-05 with one
Rows ==
  { RawRow(t, NA, j, p) : t \in Titles, j \in Journals, p \in PublishTimes }
  \cup { RawRow(t, SomeAbstract, j, Cell2020May) : t \in Titles, j \in Journals }

RECURSIVE Repeat(_, _)
Repeat(r, k) == IF k = 0 THEN <<>> ELSE <<r>> \o Repeat(r, k - 1)

\* the tables of the documented scenarios
ScenarioDefaults ==
  << RawRow(TitleAStudy, NA, NA, Cell2020May), RawRow(NaN, NA, "X", Cell1850) >>
ScenarioJournals ==
  Repeat(RawRow(TitleLung, NA, "Nature", Cell2020May), 5)
  \o Repeat(RawRow(TitleLung, NA, NA, Cell2020May), 10)
  \o Repeat(RawRow(TitleLung, NA, "Cell", Cell2018), 3)
ScenarioSentinel ==
  << RawRow(UnknownTitle, SomeAbstract, "Nature", Cell1950) >>

TablesOf(rows) == UNION { [1..k -> rows] : k \in 1..MaxRows }

Tables == TablesOf(Rows) \cup {ScenarioDefaults, ScenarioJournals, ScenarioSentinel}

\* the dashboard session's tables
SessionRows == { RawRow(TitleCovid, NA, j, p) : j \in Journals,
                                       p \in {NoCell, Cell2018, Cell2020May} }
SessionTables == TablesOf(SessionRows) \cup {ScenarioDefaults, ScenarioJournals}

\* the top-N slider: 5 to 20, 10 to start with
TopNMin == 5
TopNMax == 20
TopNDefault == 10
TopNValues == {TopNMin, TopNDefault, TopNMax}

\* ----------------------------------------------------------------- state

VARIABLES
  prog,            \* which program runs: "analysis", "app", or "dates"
  nsOnly,          \* the installed pandas keeps timestamps at nanosecond resolution
  pc,              \* where the script is
  error,           \* the line that raised, "none" while nothing has
  csv,             \* the rows of metadata.csv
  df,              \* df_clean (analysis.py), df (app.py)
  loads,           \* how often metadata.csv was read and cleaned
  year_range,      \* the year slider's value
  top_n,           \* the top-N slider's value
  filtered_df,     \* app.py filtered_df
  yearly_counts, top_journals, filtered_words, word_freq,
  cell, result     \* a publish_time cell and what a converter made of it

vars == <<prog, nsOnly, pc, error, csv, df, loads, year_range, top_n, filtered_df,
          yearly_counts, top_journals, filtered_words, word_freq, cell, result>>

NoRange == [set |-> FALSE, lo |-> 0, hi |-> 0]
YearRange(lo, hi) == [set |-> TRUE, lo |-> lo, hi |-> hi]

InitFrame ==
  /\ df = <<>> /\ loads = 0
  /\ year_range = NoRange /\ top_n = TopNDefault /\ filtered_df = <<>>
  /\ yearly_counts = <<>> /\ top_journals = <<>>
  /\ filtered_words = <<>> /\ word_freq = <<>>
  /\ error = "none"

Init ==
  /\ prog \in {"analysis", "app"}
  /\ nsOnly \in BOOLEAN
  /\ csv \in Tables
  /\ pc = IF prog = "analysis" THEN "clean" ELSE "load"
  /\ InitFrame
  /\ cell = NoCell /\ result = NaT

\* ----------------------------------------------- analysis.py, top to bottom

\* part 2: the fills, the date conversion, the title and year filters
Clean ==
  /\ prog = "analysis" /\ pc = "clean"
  /\ df' = BatchClean(csv, nsOnly)
  /\ loads' = loads + 1
  /\ pc' = "analyze"
  /\ UNCHANGED <<prog, nsOnly, error, csv, year_range, top_n, filtered_df,
                 yearly_counts, top_journals, filtered_words, word_freq, cell, result>>

\* part 3: yearly counts, top journals, title words
Analyze ==
  /\ prog = "analysis" /\ pc = "analyze"
  /\ yearly_counts' = YearlyCounts(df)
  /\ top_journals' = BatchTopJournals(df)
  /\ LET words == BatchFilteredWords(df)
     IN  /\ filtered_words' = words
         /\ word_freq' = MostCommon(words, BatchTopWords)
  /\ pc' = "visualize"
  /\ UNCHANGED <<prog, nsOnly, error, csv, df, loads, year_range, top_n, filtered_df,
                 cell, result>>

\* the four plots and the word cloud.  words, counts = zip(*word_freq) unpacks
\* an empty zip into two names when there is no word: ValueError
Visualize ==
  /\ prog = "analysis" /\ pc = "visualize"
  /\ IF word_freq = <<>>
     THEN pc' = "raised" /\ error' = "analysis.py:161"
     ELSE pc' = "summary" /\ error' = error
  /\ UNCHANGED <<prog, nsOnly, csv, df, loads, year_range, top_n, filtered_df,
                 yearly_counts, top_journals, filtered_words, word_freq, cell, result>>

\* the summary statistics
Summary ==
  /\ prog = "analysis" /\ pc = "summary"
  /\ pc' = "done"
  /\ UNCHANGED <<prog, nsOnly, error, csv, df, loads, year_range, top_n, filtered_df,
                 yearly_counts, top_journals, filtered_words, word_freq, cell, result>>

\* ------------------------------------------------------- app.py, one run

\* df = load_data()
LoadData ==
  /\ prog = "app" /\ pc = "load"
  /\ df' = load_data(csv, nsOnly)
  /\ loads' = loads + 1
  /\ pc' = "sidebar"
  /\ UNCHANGED <<prog, nsOnly, error, csv, year_range, top_n, filtered_df,
                 yearly_counts, top_journals, filtered_words, word_freq, cell, result>>

DefinedYears(frame) ==
  { frame[i].publication_year.val : i \in { k \in DOMAIN frame : frame[k].publication_year.defined } }
\* Series.min() and Series.max(), which skip NaN
MinYear(frame) == CHOOSE y \in DefinedYears(frame) : \A z \in DefinedYears(frame) : y <= z
MaxYear(frame) == CHOOSE y \in DefinedYears(frame) : \A z \in DefinedYears(frame) : y >= z

\* df[(df['publication_year'] >= lo) & (df['publication_year'] <= hi)]
FilterYears(frame, lo, hi) ==
  LET InRange(r) == YearGE(r.publication_year, lo) /\ YearLE(r.publication_year, hi)
  IN  SelectSeq(frame, InRange)

\* The sidebar: int() of the minimum of no year at all is int(NaN), a
\* ValueError.  The slider yields (min, max) on the first run and the user's
\* choice afterwards; a slider whose minimum equals its maximum is drawn too.
Sidebar ==
  /\ prog = "app" /\ pc = "sidebar"
  /\ IF DefinedYears(df) = {}
     THEN /\ pc' = "raised" /\ error' = "app.py:52"
          /\ UNCHANGED <<year_range, filtered_df>>
     ELSE LET yr == IF year_range.set THEN year_range
                    ELSE YearRange(MinYear(df), MaxYear(df))
          IN  /\ year_range' = yr
              /\ filtered_df' = FilterYears(df, yr.lo, yr.hi)
              /\ pc' = "tabs" /\ error' = error
  /\ UNCHANGED <<prog, nsOnly, csv, df, loads, top_n,
                 yearly_counts, top_journals, filtered_words, word_freq, cell, result>>

\* The metrics and the tabs.  WordCloud.generate raises ValueError on a text
\* without a word; the top-N slider was drawn before that.
Tabs ==
  /\ prog = "app" /\ pc = "tabs"
  /\ yearly_counts' = YearlyCounts(filtered_df)
  /\ top_journals' = DashTopJournals(filtered_df, top_n)
  /\ LET words == DashFilteredWords(filtered_df)
     IN  /\ filtered_words' = words
         /\ word_freq' = MostCommon(words, DashTopWords)
         /\ IF words = <<>>
            THEN pc' = "raised" /\ error' = "app.py:125"
            ELSE pc' = "idle" /\ error' = error
  /\ UNCHANGED <<prog, nsOnly, csv, df, loads, year_range, top_n, filtered_df,
                 cell, result>>

Next == Clean \/ Analyze \/ Visualize \/ Summary \/ LoadData \/ Sidebar \/ Tabs

Spec == Init /\ [][Next]_vars

\* ------------------------------------------- app.py, a session of reruns

\* the widgets of the last run are on the page
SlidersDrawn == pc = "idle" \/ (pc = "raised" /\ error = "app.py:125")

\* Streamlit runs the script again, top to bottom, when a widget changes
Rerun ==
  /\ pc' = "load" /\ error' = "none"
  /\ UNCHANGED <<prog, nsOnly, csv, df, loads, filtered_df,
                 yearly_counts, top_journals, filtered_words, word_freq, cell, result>>

MoveYearSlider ==
  /\ prog = "app" /\ SlidersDrawn /\ loads <= MaxInteractions
  /\ \E lo \in MinYear(df)..MaxYear(df) : \E hi \in lo..MaxYear(df) :
       /\ YearRange(lo, hi) # year_range
       /\ year_range' = YearRange(lo, hi)
  /\ UNCHANGED top_n
  /\ Rerun

MoveTopNSlider ==
  /\ prog = "app" /\ SlidersDrawn /\ loads <= MaxInteractions
  /\ \E n \in TopNValues : n # top_n /\ top_n' = n
  /\ UNCHANGED year_range
  /\ Rerun

InitSession ==
  /\ prog = "app"
  /\ nsOnly \in BOOLEAN
  /\ csv \in SessionTables
  /\ pc = "load"
  /\ InitFrame
  /\ cell = NoCell /\ result = NaT

NextSession == LoadData \/ Sidebar \/ Tabs \/ MoveYearSlider \/ MoveTopNSlider

SpecSession == InitSession /\ [][NextSession]_vars

\* ------------------------------------------- the two date converters alone

YearDigits == {"0", "1", "2", "6", "7", "9"}
FourDigitCells == { StrCell(s) : s \in [1..4 -> YearDigits] }

OtherCells ==
  { NoCell, CellText, Cell2020May, Cell2018, Cell1950, Cell1850,
    StrCell(<<"2","0","2","0","-","1","2">>),
    StrCell(<<"1","5","0","0","-","0","6">>),
    StrCell(<<"0","0","0","0","-","0","1">>),
    StrCell(<<"2","0","2","0","-","0","3","-","1","5">>),
    StrCell(<<"2","0","2","0","-","0","2","-","2","9">>),
    StrCell(<<"1","6","0","0","-","0","2","-","2","9">>),
    StrCell(<<"a","b","c","-","d","e","f">>),
    StrCell(<<"u","n","k","n","o","w","n">>),
    StrCell(<<"n","o","t"," ","a"," ","d","a","t","e">>),
    NumCell(2020), NumCell(1850) }

DateCells == FourDigitCells \cup OtherCells

InitDates ==
  /\ prog = "dates"
  /\ nsOnly \in BOOLEAN
  /\ cell \in DateCells
  /\ result = NaT
  /\ pc = "cell"
  /\ csv = <<>>
  /\ InitFrame

\* df_clean['publish_time'].apply(convert_publish_time), on one cell
ApplyConvertPublishTime ==
  /\ prog = "dates" /\ pc = "cell"
  /\ result' = convert_publish_time(cell, nsOnly)
  /\ pc' = "convert_publish_time"
  /\ UNCHANGED <<prog, nsOnly, error, csv, df, loads, year_range, top_n, filtered_df,
                 yearly_counts, top_journals, filtered_words, word_freq, cell>>

\* df['publish_time'].apply(convert_date), on one cell
ApplyConvertDate ==
  /\ prog = "dates" /\ pc = "cell"
  /\ result' = convert_date(cell, nsOnly)
  /\ pc' = "convert_date"
  /\ UNCHANGED <<prog, nsOnly, error, csv, df, loads, year_range, top_n, filtered_df,
                 yearly_counts, top_journals, filtered_words, word_freq, cell>>

NextDates == ApplyConvertPublishTime \/ ApplyConvertDate

SpecDates == InitDates /\ [][NextDates]_vars

\* ================================================================ claims

\* the cleaned frame exists: df_clean after its filters, load_data's result
Cleaned == (prog = "analysis" /\ pc # "clean") \/ (prog = "app" /\ loads >= 1)

\* the aggregate tables of this run exist
Aggregated ==
  \/ prog = "analysis" /\ pc \in {"visualize", "summary", "done", "raised"}
  \/ prog = "app" /\ SlidersDrawn

\* the year each publish_time cell of the tables stands for, read off the cell
DocumentedYear(c) ==
  CASE c = Cell2020May -> Year(2020)
    [] c = Cell2018 -> Year(2018)
    [] c = Cell1950 -> Year(1950)
    [] c = Cell1850 -> Year(1850)
    [] OTHER -> NoYear

Titled(r) == r.title # NaN /\ r.title # UnknownTitle
Undated(r) == r.publish_time \in {NoCell, CellText}

\* what a surviving row looks like in the frame, by the documented defaults
Expected(r) ==
  [title |-> IF r.title = NaN THEN UnknownTitle ELSE r.title,
   abstract |-> IF r.abstract = NA THEN "" ELSE r.abstract,
   journal |-> IF r.journal = NA THEN "Unknown Journal" ELSE r.journal,
   publication_year |-> DocumentedYear(r.publish_time)]

Shown(frame) ==
  [i \in DOMAIN frame |->
     [title |-> frame[i].title, abstract |-> frame[i].abstract,
      journal |-> frame[i].journal, publication_year |-> frame[i].publication_year]]

\* C1: every record of the analysis set (df_clean after its filters, and
\* load_data's result) has a year that is undefined or >= 1900 and a title
\* that is not the "Unknown Title" sentinel.
C1_AnalysisSetValid ==
  Cleaned =>
    \A i \in DOMAIN df :
      /\ ~df[i].publication_year.defined \/ df[i].publication_year.val >= 1900
      /\ df[i].title # UnknownTitle

\* C2 as stated: a row with a title whose publish_time is missing or
\* unparsable is still in the analysis set after the filters.
C2_UndatedRowKept ==
  Cleaned =>
    \A i \in DOMAIN csv :
      Titled(csv[i]) /\ Undated(csv[i]) => Expected(csv[i]) \in Range(Shown(df))

\* C2 as amended: a row whose publish_time is missing or unparsable is removed
\* by the year filter itself (NaN >= 1900 and NaN >= 2010 are False), so no
\* record of the analysis set lacks a year and none stems from such a row.
C2_UndatedRowsDropped ==
  Cleaned =>
    /\ \A k \in DOMAIN df : df[k].publication_year.defined
    /\ \A i \in DOMAIN csv : Undated(csv[i]) => Expected(csv[i]) \notin Range(Shown(df))
    /\ Len(df) <= Cardinality({ i \in DOMAIN csv : ~Undated(csv[i]) })

C2_Witness ==
  /\ prog = "analysis" /\ pc = "analyze"
  /\ \E i \in DOMAIN csv : Titled(csv[i]) /\ Undated(csv[i])
  /\ Len(df) = 1 /\ Len(csv) = 2

\* C3: the title "COVID-19 Analysis of Lung Disease" yields exactly the
\* frequency tokens lung: 1 and disease: 1, in the batch analysis and in the
\* dashboard.
C3_CovidTitleWords ==
  Aggregated /\ Column(IF prog = "analysis" THEN df ELSE filtered_df, "title") = <<TitleCovid>>
    => /\ Range(word_freq) = {[key |-> "lung", n |-> 1], [key |-> "disease", n |-> 1]}
       /\ Len(word_freq) = 2

\* C4: the top journals never contain "Unknown Journal" and are listed by
\* descending count, in the batch analysis and in the dashboard alike; the
\* counts Nature 5, Unknown Journal 10, Cell 3 yield (Nature, 5), (Cell, 3).
C4_TopJournalsKnown ==
  Aggregated =>
    /\ \A i \in DOMAIN top_journals : top_journals[i].key # "Unknown Journal"
    /\ \A i, k \in DOMAIN top_journals : i < k => top_journals[i].n >= top_journals[k].n
    /\ csv = ScenarioJournals /\ (prog = "app" => year_range = YearRange(2018, 2020))
         => top_journals = <<[key |-> "Nature", n |-> 5], [key |-> "Cell", n |-> 3]>>

\* the records the aggregates of this run are made of
RecordSet == IF prog = "app" /\ error # "app.py:52" THEN filtered_df ELSE df

\* C5: when the record set is empty the aggregate tables are empty and the
\* run goes through all its presentation steps: nothing raises.
C5_EmptySetNotFatal ==
  /\ pc = "raised" => RecordSet # <<>>
  /\ Aggregated /\ RecordSet = <<>>
       => yearly_counts = <<>> /\ top_journals = <<>> /\ word_freq = <<>>

\* C6: with the year slider at (observed minimum, observed maximum) the
\* filtered frame has as many records as the loaded frame.
C6_FullRangeKeepsAll ==
  prog = "app" /\ pc \in {"tabs", "idle", "raised"} /\ error # "app.py:52"
    /\ year_range = YearRange(MinYear(df), MaxYear(df))
    => Len(filtered_df) = Len(df)

C6_Witness ==
  /\ prog = "app" /\ pc = "idle" /\ loads > 1
  /\ Len(df) = 2 /\ MinYear(df) < MaxYear(df)
  /\ year_range = YearRange(MinYear(df), MaxYear(df))
  /\ Len(filtered_df) = 2

BatchSurvivor(r) == Titled(r) /\ YearGE(DocumentedYear(r.publish_time), 1900)
DashSurvivor(r) == YearGE(DocumentedYear(r.publish_time), 2010)
Survivors ==
  LET kept == IF prog = "analysis" THEN SelectSeq(csv, BatchSurvivor)
              ELSE SelectSeq(csv, DashSurvivor)
  IN  [i \in DOMAIN kept |-> Expected(kept[i])]

\* C7 as stated: every row that has a title and whose year is not below 1900
\* survives cleaning with the documented defaults (a row is dropped only when
\* its title is missing or its year is < 1900).
C7_DroppedOnlyUntitledOrOld ==
  Cleaned =>
    \A i \in DOMAIN csv :
      LET yr == DocumentedYear(csv[i].publish_time)
      IN  Titled(csv[i]) /\ ~(yr.defined /\ yr.val < 1900)
            => Expected(csv[i]) \in Range(Shown(df))

\* C7 as amended: the defaults are substitutions (a surviving row keeps its
\* year, a missing journal reads "Unknown Journal", a missing abstract "", a
\* missing title "Unknown Title"); the batch cleaning keeps, in order, exactly the rows with a
\* title (other than "Unknown Title") and a defined year >= 1900, and
\* load_data exactly the rows with a defined year >= 2010, whatever their
\* title.  Of the two documented rows one survives, with year 2020 and journal
\* "Unknown Journal".
C7_SurvivalRule ==
  Cleaned =>
    /\ Shown(df) = Survivors
    /\ csv = ScenarioDefaults =>
         /\ Len(df) = 1
         /\ df[1].publication_year = Year(2020)
         /\ df[1].journal = "Unknown Journal"

C7_Witness ==
  /\ prog = "analysis" /\ pc = "analyze" /\ csv = ScenarioDefaults
  /\ Len(df) = 1 /\ df[1].journal = "Unknown Journal" /\ df[1].abstract = ""

FourDigits(c) == c.kind = "str" /\ Len(c.s) = 4 /\ AllDigits(c.s)
Converted == prog = "dates" /\ pc \in {"convert_publish_time", "convert_date"}

\* C8 as stated: every publish_time string of exactly four digits, "0000" to
\* "9999", converts to January 1 of that year.
C8_EveryFourDigitYear ==
  Converted /\ FourDigits(cell) => result = Date(Number(cell.s), 1, 1)

\* C8 as amended: a four-digit string whose year is 1678 to 2262 converts to
\* January 1 of that year; "0000" converts to NaT; any other four-digit string
\* converts to January 1 of that year or, where pandas keeps timestamps at
\* nanosecond resolution, to NaT.
C8_FourDigitYearInRange ==
  Converted /\ FourDigits(cell) =>
    LET y == Number(cell.s)
    IN  /\ y \in 1678..2262 => result = Date(y, 1, 1) /\ DtYear(result) = Year(y)
        /\ y = 0 => result = NaT
        /\ result \in {NaT, Date(y, 1, 1)}

C8_Witness ==
  /\ Converted /\ cell = StrCell(<<"2","0","2","0">>)
  /\ result = Date(2020, 1, 1)

\* C9: date normalization is total: whatever the publish_time cell, the
\* converter returns a timestamp or NaT and never raises.
C9_ConverterNeverRaises ==
  Converted => result.kind \in {"date", "NaT"}

C9_Witness ==
  /\ prog = "dates" /\ pc = "convert_publish_time"
  /\ ConvertPublishTimeTry(cell, nsOnly).kind = "raise"
  /\ result = NaT

\* C10: within one dashboard session the table is loaded and cleaned once,
\* however often the sliders move.
C10_LoadedOnce == prog = "app" => loads <= 1

====
